---- MODULE Spec2Model ----
(***************************************************************************)
(* SurfSplitNavigator (src/src/createSurfSplitNavigator.js): a React       *)
(* function component that derives split/stack mode from the window        *)
(* dimensions, keeps the navigation state store in sync with it by         *)
(* dispatching setSplitted actions from an effect, records the focused     *)
(* indices in `loaded`, and renders either the split layout or a stack     *)
(* backend.                                                                *)
(*                                                                         *)
(* One render pass (the function body, lines 93-218) is one action; the    *)
(* passive effects of a committed pass (lines 48-67, 119-126, 130-134) run *)
(* together, in hook order, as a second action.  Window dimension changes, *)
(* store deliveries and navigation actions interleave with them.           *)
(* The router (./SurfSplitRouter) is not part of the sources: the store    *)
(* is modelled from the specification's contract for it.                   *)
(***************************************************************************)
EXTENDS Integers, Sequences, FiniteSets, TLC

VARIABLES
    routeNames,       \* the registered screens (children), in order
    initialRouteName, \* prop
    mainWidth,        \* prop
    window,           \* Dimensions.get('window'), the global value
    listeners,        \* registered 'change' listeners: the closures' captured dimensions
    dimensions,       \* useState value of the dimension hook (as of the last commit)
    pendingDims,      \* queued setDimensions update: <<>> or <<d>> (the last one wins)
    loaded,           \* useState value `loaded` (as of the last commit)
    pendingLoaded,    \* queued setLoaded update: <<>> or <<array>>
    subscribed,       \* <<>> or <<the handleChange closure this component has registered>>
    navState,         \* the store's NavigationState
    msgs,             \* dispatched actions the store has not processed yet
    pc,               \* "idle" | "effects" | "crashed" | "unmounted"
    committed,        \* some render pass has committed (the component is mounted)
    cur,              \* what the last committed pass rendered with
    todo,             \* effects of the last committed pass whose deps changed
    pass,             \* the last render pass, committed or not, and its output
                      \* (seen: the keys of the routes focused in a pass so far)
    sentMinusEdges,   \* history: actions dispatched so far minus changes of
                      \* isSplitted between consecutive committed passes so far
    sentLog,          \* history: the last LogLen actions dispatched, oldest first
    osc,              \* monitor of one oscillating batch of window changes
    oscFrom,          \* monitor: isSplitted of the commit the batch started from
    oscSent           \* monitor: actions dispatched since the batch started

vars == <<routeNames, initialRouteName, mainWidth, window, listeners, subscribed,
          dimensions, pendingDims, loaded, pendingLoaded, navState, msgs, pc,
          committed, cur, todo, pass, sentMinusEdges, sentLog,
          osc, oscFrom, oscSent>>

----------------------------------------------------------------------------
(* Bounds and inputs *)

MainWidth == 300
LogLen == 2

MAIN_SCREEN_NAME == "main"

Dim(w, h, s, f) == [width |-> w, height |-> h, scale |-> s, fontScale |-> f]

Narrow == Dim(MainWidth - 100, 600, 1, 1)
Exact == Dim(MainWidth, 600, 1, 1)
Wide == Dim(MainWidth + 100, 600, 1, 1)

WideAlt == Dim(MainWidth + 100, 700, 2, 2)

DimSet == {Narrow, Exact, Wide, WideAlt}

\* the mainWidth props the model is run with
MainWidths == {MainWidth, MainWidth + 100}

Platforms == {"web", "android", "ios"}

\* the screen lists and initialRouteName props the model is run with
Configs ==
    {<<<<"main", "detailA", "detailB">>, "main">>,
     <<<<"main", "detailA", "detailB">>, "detailA">>,
     <<<<"detailA", "detailB">>, "detailA">>}

Range(s) == {s[i] : i \in 1..Len(s)}

Last(s) == s[Len(s)]

\* s with x appended, cut to its last n elements
keepLast(s, x, n) ==
    IF Len(s) < n THEN Append(s, x) ELSE Append(SubSeq(s, Len(s) - n + 2, Len(s)), x)

----------------------------------------------------------------------------
(* Pure helpers of the component *)

getIsSplittedGE(d, mw) == d.width >= mw

getIsSplitted(d, mw) == d.width > mw

differsNoFontScale(a, b) ==
    \/ a.width # b.width
    \/ a.height # b.height
    \/ a.scale # b.scale

\* the condition of handleChange
differs(a, b) ==
    \/ a.width # b.width
    \/ a.height # b.height
    \/ a.scale # b.scale
    \/ a.fontScale # b.fontScale

handleChangeAlways(captured, w, queue) == <<w>>

\* handleChange as a function of the closure's dimensions and the queue
handleChange(captured, w, queue) ==
    IF differs(captured, w) THEN <<w>> ELSE queue

recheckSkipped(captured, w, queue) == queue

recheckNoRefetch(captured, w, queue) == handleChange(captured, captured, queue)

recheckAlways(captured, w, queue) == <<w>>

\* line 63: the effect calls handleChange with the current window dimensions
recheck(captured, w, queue) == handleChange(captured, w, queue)

\* all registered listeners receive the event, in registration order
RECURSIVE notify(_, _, _)
notify(ls, w, queue) ==
    IF ls = <<>> THEN queue
    ELSE notify(Tail(ls), w, handleChange(Head(ls), w, queue))

removeListenerNoop(ls, h) == ls

\* Dimensions.removeEventListener('change', handleChange)
RECURSIVE removeListener(_, _)
removeListener(ls, h) ==
    IF ls = <<>> THEN <<>>
    ELSE IF Head(ls) = h THEN Tail(ls)
    ELSE <<Head(ls)>> \o removeListener(Tail(ls), h)

setSplittedSwapped(b, initName) ==
    [type |-> "SET_SPLITTED", isSplitted |-> b,
     initialRouteName |-> IF b THEN MAIN_SCREEN_NAME ELSE initName]

\* the action built by the effect of lines 119-126
setSplitted(b, initName) ==
    [type |-> "SET_SPLITTED", isSplitted |-> b,
     initialRouteName |-> IF b THEN initName ELSE MAIN_SCREEN_NAME]

splitEffectRunsAlways(mounting, prevSplit, nowSplit) == TRUE

splitEffectRunsNotOnMount(mounting, prevSplit, nowSplit) ==
    ~mounting /\ prevSplit # nowSplit

splitEffectRunsOnlyOnMount(mounting, prevSplit, nowSplit) == mounting

\* deps [isSplitted]: the effect runs on mount and when the boolean changed
splitEffectRuns(mounting, prevSplit, nowSplit) ==
    mounting \/ prevSplit # nowSplit

loadedEffectReplace(ld, st) ==
    IF st.index \notin Range(ld) THEN <<<<st.index>>>> ELSE <<>>

loadedEffectInverted(ld, st) ==
    IF st.index \in Range(ld) THEN <<Append(ld, st.index)>> ELSE <<>>

\* the effect of lines 130-134: the queued setLoaded update, if any
loadedEffect(ld, st) ==
    IF st.index \notin Range(ld) THEN <<Append(ld, st.index)>> ELSE <<>>

----------------------------------------------------------------------------
(* The render output *)

Route(n) == [key |-> <<"key", n>>, name |-> n]

hasMain(routes) == \E i \in 1..Len(routes) : routes[i].name = MAIN_SCREEN_NAME

\* state.routes.find(({ name }) => name === MAIN_SCREEN_NAME)
findMain(routes) ==
    routes[CHOOSE i \in 1..Len(routes) :
              /\ routes[i].name = MAIN_SCREEN_NAME
              /\ \A j \in 1..(i - 1) : routes[j].name # MAIN_SCREEN_NAME]

NoTree == [kind |-> "none", main |-> <<>>, detail |-> <<>>, stack |-> <<>>]

ErrorTree == [kind |-> "error", main |-> <<>>, detail |-> <<>>, stack |-> <<>>]

sceneShownNoMainCheck(st, ld, mainKey, i) ==
    ~(i \notin Range(ld) /\ st.index # i)

\* lines 157-166: whether the route at index i gets a scene
sceneShown(st, ld, mainKey, i) ==
    /\ st.routes[i + 1].key # mainKey
    /\ ~(i \notin Range(ld) /\ st.index # i)

detailScenesAllVisible(st, ld, mainKey) ==
    LET idx == [i \in 1..Len(st.routes) |-> i - 1]
        shown == SelectSeq(idx, LAMBDA i : sceneShown(st, ld, mainKey, i))
    IN [j \in 1..Len(shown) |->
           [key |-> st.routes[shown[j] + 1].key,
            index |-> shown[j],
            isVisible |-> TRUE]]

\* lines 152-177: the scenes of the detail region, in route order
detailScenes(st, ld, mainKey) ==
    LET idx == [i \in 1..Len(st.routes) |-> i - 1]
        shown == SelectSeq(idx, LAMBDA i : sceneShown(st, ld, mainKey, i))
    IN [j \in 1..Len(shown) |->
           [key |-> st.routes[shown[j] + 1].key,
            index |-> shown[j],
            isVisible |-> (st.index = shown[j])]]

splitTree(st, ld) ==
    LET mainRoute == findMain(st.routes)
    IN [kind |-> "split", main |-> <<mainRoute.key>>,
        detail |-> detailScenes(st, ld, mainRoute.key), stack |-> <<>>]

stackTreeKeepType(st) ==
    [kind |-> "stack", main |-> <<>>, detail |-> <<>>,
     stack |-> <<[routes |-> st.routes, index |-> st.index, type |-> st.type]>>]

\* lines 186-189: the state handed to the stack backend
stackTree(st) ==
    [kind |-> "stack", main |-> <<>>, detail |-> <<>>,
     stack |-> <<[routes |-> st.routes, index |-> st.index, type |-> "stack"]>>]

\* lines 194-218: the backend a stack render delegates to, for Platform.OS
\* os and screensEnabled() se
stackBackend(os, se) == IF os # "web" /\ se THEN "NativeStackView" ELSE "StackView"

renderTreeFallback(isSplitted, st, ld) ==
    IF isSplitted /\ hasMain(st.routes) THEN splitTree(st, ld)
    ELSE stackTree(st)

renderTreeByType(isSplitted, st, ld) ==
    IF st.type = "split"
    THEN IF ~hasMain(st.routes) THEN ErrorTree ELSE splitTree(st, ld)
    ELSE stackTree(st)

\* lines 136-218: what the function body returns (or the throw)
renderTree(isSplitted, st, ld) ==
    IF isSplitted
    THEN IF ~hasMain(st.routes) THEN ErrorTree ELSE splitTree(st, ld)
    ELSE stackTree(st)

----------------------------------------------------------------------------
(* The navigation state store (contract of the specification, sections 3, 4.3) *)

indexOfName(routes, n) ==
    IF \E i \in 1..Len(routes) : routes[i].name = n
    THEN (CHOOSE i \in 1..Len(routes) :
             /\ routes[i].name = n
             /\ \A j \in 1..(i - 1) : routes[j].name # n) - 1
    ELSE -1

splitRoutes(names) == [i \in 1..Len(names) |-> Route(names[i])]

splitState(names, focus) ==
    [routes |-> splitRoutes(names),
     index |-> IF indexOfName(splitRoutes(names), focus) >= 0
               THEN indexOfName(splitRoutes(names), focus) ELSE 0,
     type |-> "split"]

stackState(n) == [routes |-> <<Route(n)>>, index |-> 0, type |-> "stack"]

\* SetMode: idempotent; entering split lists every screen and focuses the
\* target; leaving split collapses to a stack ending at the target
setMode(st, a, names) ==
    IF a.isSplitted
    THEN IF st.type = "split" THEN st ELSE splitState(names, a.initialRouteName)
    ELSE IF st.type = "stack" THEN st ELSE stackState(a.initialRouteName)

\* navigate: focus in split mode; pop-to or push in stack mode
navigate(st, n) ==
    LET i == indexOfName(st.routes, n)
    IN IF st.type = "split"
       THEN IF i >= 0 THEN [st EXCEPT !.index = i] ELSE st
       ELSE IF i >= 0
            THEN [st EXCEPT !.routes = SubSeq(st.routes, 1, i + 1), !.index = i]
            ELSE [st EXCEPT !.routes = Append(st.routes, Route(n)),
                            !.index = Len(st.routes)]

goBack(st) ==
    IF st.type = "stack" /\ Len(st.routes) > 1
    THEN [st EXCEPT !.routes = SubSeq(st.routes, 1, Len(st.routes) - 1),
                    !.index = Len(st.routes) - 2]
    ELSE st

initialStates(names, initName) ==
    {stackState(IF MAIN_SCREEN_NAME \in Range(names)
                THEN MAIN_SCREEN_NAME ELSE initName)}
    \cup (IF MAIN_SCREEN_NAME \in Range(names)
          THEN {splitState(names, initName)} ELSE {})

----------------------------------------------------------------------------
(* Scheduling predicates *)

\* a re-render is scheduled: mount, a queued state update, or a new store state
renderScheduled ==
    \/ ~committed
    \/ pendingDims # <<>>
    \/ pendingLoaded # <<>>
    \/ navState # cur.state

Mounted == pc \in {"idle", "effects"}

Quiescent ==
    /\ pc = "idle"
    /\ committed
    /\ ~renderScheduled
    /\ msgs = <<>>

----------------------------------------------------------------------------
(* Initial state: before the first render pass *)

Init ==
    /\ \E c \in Configs : routeNames = c[1] /\ initialRouteName = c[2]
    /\ mainWidth \in MainWidths
    /\ window \in {Narrow, Exact, Wide}
    /\ listeners = <<>>
    /\ subscribed = <<>>
    /\ dimensions = window
    /\ pendingDims = <<>>
    /\ loaded = <<>>
    /\ pendingLoaded = <<>>
    /\ navState \in initialStates(routeNames, initialRouteName)
    /\ msgs = <<>>
    /\ pc = "idle"
    /\ committed = FALSE
    /\ cur = [dimensions |-> window, isSplitted |-> FALSE,
              state |-> navState, loaded |-> <<>>]
    /\ todo = {}
    /\ pass = [isSplitted |-> FALSE, state |-> navState, loaded |-> <<>>,
               tree |-> NoTree, first |-> FALSE, flipped |-> FALSE,
               seen |-> {}]
    /\ sentMinusEdges = 0
    /\ sentLog = <<>>
    /\ osc = "off"
    /\ oscFrom = FALSE
    /\ oscSent = 0

----------------------------------------------------------------------------
(* Monitor of one batch of three window changes Wide, Narrow, Wide widths  *)
(* that starts in a quiescent state and sees no render pass in between     *)

oscAfterChange(d) ==
    IF Quiescent /\ d.width = Wide.width THEN "t1"
    ELSE IF osc = "t1" /\ d.width = Narrow.width THEN "t2"
    ELSE IF osc = "t2" /\ d.width = Wide.width THEN "t3"
    ELSE "off"

oscAfterRender == IF osc \in {"t3", "run"} THEN "run" ELSE "off"

----------------------------------------------------------------------------
(* Actions *)

\* Dimensions.set: the global value changes and every registered listener
\* is called with it (changes nobody can observe, after the teardown with no
\* listener left, are not enumerated)
WindowChange(d) ==
    /\ Mounted \/ listeners # <<>>
    /\ window' = d
    /\ pendingDims' = notify(listeners, d, pendingDims)
    /\ osc' = oscAfterChange(d)
    /\ oscFrom' = IF osc' = "t1" THEN cur.isSplitted
                  ELSE IF osc' = "off" THEN FALSE ELSE oscFrom
    /\ oscSent' = 0
    /\ UNCHANGED <<routeNames, initialRouteName, mainWidth, listeners, subscribed,
                   dimensions, loaded, pendingLoaded, navState, msgs, pc,
                   committed, cur, todo, pass, sentMinusEdges, sentLog>>

\* the effects whose dependencies changed in a pass
effectsOf(mounting, dimsChanged, prevSplit, nowSplit, prevState, nowState) ==
    (IF mounting \/ dimsChanged THEN {"dims"} ELSE {})
    \cup (IF splitEffectRuns(mounting, prevSplit, nowSplit) THEN {"split"} ELSE {})
    \cup (IF mounting \/ prevState # nowState THEN {"state"} ELSE {})

\* one render pass: the function body of SurfSplitNavigator, then the commit
\* (or the throw of line 141, after which React unmounts the tree); a
\* dispatched action is delivered after the pass that dispatched it and before
\* the next one
Render ==
    /\ pc = "idle"
    /\ renderScheduled
    /\ msgs = <<>>
    /\ LET dims == IF ~committed THEN window
                   ELSE IF pendingDims # <<>> THEN pendingDims[1] ELSE dimensions
           ld == IF pendingLoaded # <<>> THEN pendingLoaded[1] ELSE loaded
           isSplitted == getIsSplitted(dims, mainWidth)
           tree == renderTree(isSplitted, navState, ld)
       IN /\ pass' = [isSplitted |-> isSplitted, state |-> navState,
                      loaded |-> ld, tree |-> tree, first |-> ~committed,
                      flipped |-> committed /\ cur.isSplitted # isSplitted,
                      seen |-> pass.seen \cup {navState.routes[navState.index + 1].key}]
          /\ IF tree.kind = "error"
             THEN /\ pc' = "crashed"
                  /\ listeners' = IF subscribed # <<>>
                                  THEN removeListener(listeners, subscribed[1])
                                  ELSE listeners
                  /\ subscribed' = <<>>
                  /\ osc' = "off"
                  /\ oscFrom' = FALSE
                  /\ oscSent' = 0
                  /\ UNCHANGED <<dimensions, pendingDims, loaded, pendingLoaded,
                                 committed, cur, todo, sentMinusEdges>>
             ELSE /\ pc' = "effects"
                  /\ dimensions' = dims
                  /\ pendingDims' = <<>>
                  /\ loaded' = ld
                  /\ pendingLoaded' = <<>>
                  /\ committed' = TRUE
                  /\ cur' = [dimensions |-> dims, isSplitted |-> isSplitted,
                             state |-> navState, loaded |-> ld]
                  /\ todo' = effectsOf(~committed, pendingDims # <<>>,
                                       cur.isSplitted, isSplitted,
                                       cur.state, navState)
                  /\ sentMinusEdges' =
                         IF committed /\ cur.isSplitted # isSplitted
                         THEN sentMinusEdges - 1 ELSE sentMinusEdges
                  /\ osc' = oscAfterRender
                  /\ oscFrom' = IF osc' = "off" THEN FALSE ELSE oscFrom
                  /\ oscSent' = IF osc' = "off" THEN 0 ELSE oscSent
                  /\ UNCHANGED <<listeners, subscribed>>
    /\ UNCHANGED <<routeNames, initialRouteName, mainWidth, window, navState, msgs,
                   sentLog>>

\* the passive effects of the committed pass, in hook order: the dimension
\* subscription (lines 48-67), setSplitted (119-126), loaded (130-134)
RunEffects ==
    /\ pc = "effects"
    /\ pc' = "idle"
    /\ todo' = {}
    /\ IF "dims" \in todo
       THEN /\ listeners' = Append(IF subscribed # <<>>
                                   THEN removeListener(listeners, subscribed[1])
                                   ELSE listeners, cur.dimensions)
            /\ subscribed' = <<cur.dimensions>>
            /\ pendingDims' = recheck(cur.dimensions, window, pendingDims)
       ELSE UNCHANGED <<listeners, subscribed, pendingDims>>
    /\ IF "split" \in todo
       THEN /\ msgs' = Append(msgs, setSplitted(cur.isSplitted, initialRouteName))
            /\ sentLog' = keepLast(sentLog,
                                   setSplitted(cur.isSplitted, initialRouteName),
                                   LogLen)
            /\ sentMinusEdges' = sentMinusEdges + 1
            /\ oscSent' = IF osc = "run" THEN oscSent + 1 ELSE oscSent
       ELSE UNCHANGED <<msgs, sentLog, sentMinusEdges, oscSent>>
    /\ pendingLoaded' = IF "state" \in todo /\ loadedEffect(cur.loaded, cur.state) # <<>>
                        THEN loadedEffect(cur.loaded, cur.state)
                        ELSE pendingLoaded
    /\ UNCHANGED <<routeNames, initialRouteName, mainWidth, window, dimensions, loaded,
                   navState, committed, cur, pass, osc, oscFrom>>

\* the store processes the oldest dispatched action
StoreDeliver ==
    /\ msgs # <<>>
    /\ navState' = setMode(navState, Head(msgs), routeNames)
    /\ msgs' = Tail(msgs)
    /\ UNCHANGED <<routeNames, initialRouteName, mainWidth, window, listeners, subscribed,
                   dimensions, pendingDims, loaded, pendingLoaded, pc, committed,
                   cur, todo, pass, sentMinusEdges, sentLog, osc, oscFrom,
                   oscSent>>

\* a screen navigates; the store applies it after the actions already issued
Navigate(n) ==
    /\ committed
    /\ Mounted
    /\ msgs = <<>>
    /\ navigate(navState, n) # navState
    /\ navState' = navigate(navState, n)
    /\ UNCHANGED <<routeNames, initialRouteName, mainWidth, window, listeners, subscribed,
                   dimensions, pendingDims, loaded, pendingLoaded, msgs, pc,
                   committed, cur, todo, pass, sentMinusEdges, sentLog, osc,
                   oscFrom, oscSent>>

GoBack ==
    /\ committed
    /\ Mounted
    /\ msgs = <<>>
    /\ goBack(navState) # navState
    /\ navState' = goBack(navState)
    /\ UNCHANGED <<routeNames, initialRouteName, mainWidth, window, listeners, subscribed,
                   dimensions, pendingDims, loaded, pendingLoaded, msgs, pc,
                   committed, cur, todo, pass, sentMinusEdges, sentLog, osc,
                   oscFrom, oscSent>>

\* the container unmounts: the cleanup of lines 64-66 runs
Unmount ==
    /\ pc = "idle"
    /\ committed
    /\ pc' = "unmounted"
    /\ listeners' = IF subscribed # <<>>
                    THEN removeListener(listeners, subscribed[1]) ELSE listeners
    /\ subscribed' = <<>>
    /\ osc' = "off"
    /\ oscFrom' = FALSE
    /\ oscSent' = 0
    /\ UNCHANGED <<routeNames, initialRouteName, mainWidth, window, dimensions,
                   pendingDims, loaded, pendingLoaded, navState, msgs, committed,
                   cur, todo, pass, sentMinusEdges, sentLog>>

Next ==
    \/ \E d \in DimSet : WindowChange(d)
    \/ Render
    \/ RunEffects
    \/ StoreDeliver
    \/ \E n \in Range(routeNames) : Navigate(n)
    \/ GoBack
    \/ Unmount

Spec == Init /\ [][Next]_vars

\* React runs a scheduled render pass and the passive effects of a committed
\* pass, and the store processes a dispatched action: none of them waits
\* forever
FairSpec ==
    /\ Spec
    /\ WF_vars(Render)
    /\ WF_vars(RunEffects)
    /\ WF_vars(StoreDeliver)

----------------------------------------------------------------------------
(* Derived values the properties read *)

\* the value React holds for `loaded`: the queued update, if any, else the
\* committed one
LoadedSet == Range(IF pendingLoaded # <<>> THEN pendingLoaded[1] ELSE loaded)

modeOf(d) == IF d.width > mainWidth THEN "split" ELSE "stack"

sceneKeys(tree) == {tree.detail[j].key : j \in 1..Len(tree.detail)}

stackKeys(tree) ==
    IF tree.stack = <<>> THEN {}
    ELSE {tree.stack[1].routes[j].key : j \in 1..Len(tree.stack[1].routes)}

mainIndexes(routes) == {i - 1 : i \in {j \in 1..Len(routes) : routes[j].name = MAIN_SCREEN_NAME}}

----------------------------------------------------------------------------
(* C1 *)

\* C1 as stated: whenever no effect is pending, the number of setSplitted
\* actions dispatched equals the number of changes of isSplitted between two
\* consecutive render passes.
C1_SentEqualsEdges == pc # "effects" => sentMinusEdges = 0

\* C1, amended: the mount commit dispatches one action; after it, exactly one
\* action is dispatched per change of isSplitted between consecutive committed
\* passes and none by a pass that leaves the boolean unchanged, so the number
\* dispatched is one more than the number of changes (and a pass that throws
\* dispatches nothing).
C1_OneAtMountThenOnePerEdge ==
    /\ ~committed => sentMinusEdges = 0
    /\ committed /\ pc # "effects" => sentMinusEdges = 1
    /\ pc = "effects" => sentMinusEdges = (IF "split" \in todo THEN 0 ELSE 1)
    /\ (pc = "effects" /\ sentLog # <<>>
           /\ pass.isSplitted = Last(sentLog).isSplitted)
           => "split" \notin todo

C1_Witness ==
    /\ pc = "idle"
    /\ Len(sentLog) = 2
    /\ sentLog[1].isSplitted # sentLog[2].isSplitted
    /\ sentMinusEdges = 1
    /\ cur.state.index \notin Range(cur.loaded)

----------------------------------------------------------------------------
(* C2 *)

\* C2: once the mounted container has nothing scheduled (no render pass, no
\* queued update, no undelivered action), NavigationState.type is the mode
\* implied by the current window width, and the held dimensions are the
\* current window dimensions.
C2_FinalTypeMatchesLastWidth ==
    Quiescent => /\ navState.type = modeOf(window)
                 /\ ~differs(dimensions, window)

C2_Witness ==
    /\ Quiescent
    /\ osc = "run"
    /\ navState.type = "split"
    /\ oscSent > 0

----------------------------------------------------------------------------
(* C3 *)

\* C3: every action dispatched is setSplitted(b, t) with b the isSplitted of
\* the pass whose effect dispatches it (computed from the dimensions that pass
\* rendered with), t = initialRouteName if b and MAIN_SCREEN_NAME otherwise.
C3_MessageForm ==
    [][Len(msgs') > Len(msgs) =>
          LET m == Last(msgs')
          IN /\ m.isSplitted = pass.isSplitted
             /\ m.isSplitted = (dimensions.width > mainWidth)
             /\ m.initialRouteName =
                   (IF m.isSplitted THEN initialRouteName ELSE MAIN_SCREEN_NAME)]_vars

C3_Witness ==
    /\ initialRouteName = "detailA"
    /\ sentLog = <<[type |-> "SET_SPLITTED", isSplitted |-> TRUE,
                    initialRouteName |-> "detailA"],
                   [type |-> "SET_SPLITTED", isSplitted |-> FALSE,
                    initialRouteName |-> MAIN_SCREEN_NAME]>>
    /\ msgs = <<Last(sentLog)>>

----------------------------------------------------------------------------
(* C4 *)

\* C4: a render pass with isSplitted true and no route named MAIN_SCREEN_NAME
\* ends in the error outcome: no split layout, no stack backend, no commit.
C4_MissingMainIsFatal ==
    (pass.tree.kind # "none" /\ pass.isSplitted /\ ~hasMain(pass.state.routes))
        => /\ pass.tree.kind = "error"
           /\ pass.tree.main = <<>>
           /\ pass.tree.detail = <<>>
           /\ pass.tree.stack = <<>>
           /\ pc = "crashed"

C4_Witness ==
    /\ pc = "crashed"
    /\ pass.isSplitted
    /\ ~hasMain(pass.state.routes)
    /\ committed

----------------------------------------------------------------------------
(* C5 *)

\* C5: loaded starts empty and only grows: no step removes an index from the
\* committed array or from the value React holds for it.
C5_LoadedOnlyGrows ==
    /\ loaded = <<>>
    /\ [][/\ Range(loaded) \subseteq Range(loaded')
          /\ LoadedSet \subseteq LoadedSet']_vars

C5_Witness ==
    /\ Len(loaded) = 3
    /\ navState.type = "split"

----------------------------------------------------------------------------
(* C6 *)

\* C6: after a committed pass with isSplitted true and its effects, the
\* focused index of that pass is in the loaded set (or is the main route).
C6_FocusedIsLoaded ==
    (pc = "idle" /\ committed /\ cur.isSplitted)
        => \/ cur.state.index \in LoadedSet
           \/ cur.state.index \in mainIndexes(cur.state.routes)

C6_Witness ==
    /\ pc = "idle"
    /\ committed
    /\ cur.isSplitted
    /\ cur.state.index \notin mainIndexes(cur.state.routes)
    /\ cur.state.index \notin Range(cur.loaded)
    /\ cur.state.index \in LoadedSet

----------------------------------------------------------------------------
(* C7 *)

\* C7: a route that has a scene in the detail region of one pass is present
\* in the tree of the next pass that produces a tree (as a scene, or as a
\* route handed to the stack backend). It fails when the route list changes
\* under the recorded indices: the pass after the store entered split mode
\* drops the scene of a route whose new index is not in loaded.
C7_NeverRemoved ==
    [][(pass' # pass /\ pass'.tree.kind # "error")
          => sceneKeys(pass.tree) \subseteq
                 (sceneKeys(pass'.tree) \cup stackKeys(pass'.tree))]_vars

----------------------------------------------------------------------------
(* C8 *)

\* C8 as stated: the committed loaded array holds no index of a route named
\* MAIN_SCREEN_NAME of the state last rendered.
C8_MainNeverInLoaded ==
    committed => Range(loaded) \cap mainIndexes(cur.state.routes) = {}

\* C8, amended: the focused index is recorded whatever route it is, the main
\* route included; what holds is that the split layout never reads loaded for
\* the main route: no scene of the detail region is the main route.
C8_MainRecordedButNeverAScene ==
    /\ (pc = "idle" /\ committed) => cur.state.index \in LoadedSet
    /\ pass.tree.kind = "split"
          => /\ pass.tree.main[1] \notin sceneKeys(pass.tree)
             /\ \A j \in 1..Len(pass.tree.detail) :
                   pass.tree.detail[j].index \notin mainIndexes(pass.state.routes)

C8_Witness ==
    /\ pass.tree.kind = "split"
    /\ pass.state.type = "split"
    /\ Range(pass.loaded) \cap mainIndexes(pass.state.routes) # {}
    /\ pass.state.index = 2
    /\ Range(pass.loaded) = {0, 2}

----------------------------------------------------------------------------
(* C9 *)

\* C9: the isSplitted of every committed pass is true exactly when the width
\* it rendered with exceeds mainWidth (equal widths give false), and
\* dimensions of that width give the same result whatever their height, scale
\* and fontScale.
C9_SplitIffWider ==
    committed =>
        /\ cur.isSplitted = (cur.dimensions.width > mainWidth)
        /\ \A d \in DimSet :
              d.width = cur.dimensions.width
                  => getIsSplitted(d, mainWidth) = cur.isSplitted

C9_Witness ==
    /\ committed
    /\ cur.dimensions.width = mainWidth
    /\ ~cur.isSplitted
    /\ pass.tree.kind = "stack"

----------------------------------------------------------------------------
(* C10 *)

\* C10 as stated: with mainWidth = 300, after a batch of window changes to
\* widths 400, 200, 400 with no render pass in between, exactly one action,
\* setSplitted(true), has been dispatched for the batch once the container is
\* quiescent again.
C10_ExactlyOnePerBatch ==
    (osc = "run" /\ Quiescent /\ mainWidth = MainWidth)
        => oscSent = 1 /\ Last(sentLog).isSplitted

\* C10, amended: exactly one action, setSplitted(true), is dispatched for the
\* batch when the pass committed before it had isSplitted false; when it had
\* isSplitted true, none or two (false, then true) are dispatched; never
\* three, and the last action dispatched is setSplitted(true).
C10_BatchByStartingMode ==
    (osc = "run" /\ Quiescent /\ mainWidth = MainWidth)
        => /\ ~oscFrom => oscSent = 1
           /\ oscFrom => oscSent \in {0, 2}
           /\ Last(sentLog) = setSplitted(TRUE, initialRouteName)

C10_Witness ==
    /\ osc = "run"
    /\ Quiescent
    /\ mainWidth = MainWidth
    /\ oscFrom
    /\ oscSent = 2

----------------------------------------------------------------------------
(* C11 *)

\* the last pass is the transient one: it is the first to compute a changed
\* isSplitted, and the state it read still has the type of the other mode
transientPass ==
    /\ pass.flipped
    /\ pass.tree # NoTree
    /\ pass.state.type # (IF pass.isSplitted THEN "split" ELSE "stack")

\* C11 as stated: the transient pass never takes the fatal error path,
\* whatever state of the old mode it reads, a stack state with no route named
\* MAIN_SCREEN_NAME included.
C11_TransientNeverFatal == transientPass => pass.tree.kind # "error"

\* C11, amended: the transient pass completes with a tree exactly when the
\* state it reads has a route named MAIN_SCREEN_NAME or the new isSplitted is
\* false; the pass that turns isSplitted true over a stack state with no such
\* route throws, although the type it read is still "stack".
C11_TransientFatalIffNoMain ==
    transientPass =>
        /\ (pass.tree.kind = "error")
               <=> (pass.isSplitted /\ ~hasMain(pass.state.routes))
        /\ pass.tree.kind = "error" => pc = "crashed" /\ pass.state.type = "stack"
        /\ pass.tree.kind # "error"
               => pass.tree.kind = (IF pass.isSplitted THEN "split" ELSE "stack")

C11_Witness ==
    /\ transientPass
    /\ pass.isSplitted
    /\ pass.state.type = "stack"
    /\ hasMain(pass.state.routes)
    /\ Len(pass.state.routes) = 2
    /\ pass.tree.kind = "split"
    /\ pc = "effects"

----------------------------------------------------------------------------
(* C12 *)

\* the scenes of the tree whose route has index i
scenesAt(tree, i) == {j \in 1..Len(tree.detail) : tree.detail[j].index = i}

\* C12: in a split pass that does not throw, the master region holds exactly
\* the render of the route named MAIN_SCREEN_NAME and no scene of the detail
\* region has its key; every other route, at index i, has no scene when i is
\* neither the focused index nor in the loaded value the pass read, and
\* otherwise exactly one scene, with its own key and isVisible true exactly
\* when i is the focused index; so at most one scene is visible.
C12_SplitLayoutContents ==
    pass.tree.kind = "split" =>
        LET st == pass.state
            tree == pass.tree
            mainRoute == findMain(st.routes)
        IN /\ tree.main = <<mainRoute.key>>
           /\ mainRoute.name = MAIN_SCREEN_NAME
           /\ \A i \in 0..(Len(st.routes) - 1) :
                 IF st.routes[i + 1].key = mainRoute.key
                 THEN scenesAt(tree, i) = {}
                 ELSE IF i # st.index /\ i \notin Range(pass.loaded)
                 THEN scenesAt(tree, i) = {}
                 ELSE /\ Cardinality(scenesAt(tree, i)) = 1
                      /\ \A j \in scenesAt(tree, i) :
                            /\ tree.detail[j].key = st.routes[i + 1].key
                            /\ tree.detail[j].isVisible = (i = st.index)
           /\ \A j \in 1..Len(tree.detail) :
                 tree.detail[j].index \in 0..(Len(st.routes) - 1)
           /\ Cardinality({j \in 1..Len(tree.detail) : tree.detail[j].isVisible}) <= 1

\* a split pass over three routes whose detail region holds the visible
\* scene of the focused route and the hidden scene of a loaded one
C12_Witness ==
    /\ pass.tree.kind = "split"
    /\ Len(pass.state.routes) = 3
    /\ Len(pass.tree.detail) = 2
    /\ \E j \in 1..2 : pass.tree.detail[j].isVisible
    /\ \E j \in 1..2 : ~pass.tree.detail[j].isVisible

----------------------------------------------------------------------------
(* C13 *)

\* the setSplitted action the last committed pass owes: it mounted the
\* component or computed a changed isSplitted, and its effects have not run
owesSetSplitted == pc = "effects" /\ (pass.first \/ pass.flipped)

\* what a step may do to the dispatched actions
dispatchOrder ==
    /\ (msgs' # msgs /\ Len(msgs') >= Len(msgs))
           => /\ pc = "effects" /\ pc' = "idle"
              /\ owesSetSplitted
              /\ pass' = pass
              /\ msgs' = Append(msgs, setSplitted(pass.isSplitted, initialRouteName))
    /\ (owesSetSplitted /\ ~owesSetSplitted')
           => msgs' = Append(msgs, setSplitted(pass.isSplitted, initialRouteName))
    /\ Len(msgs') < Len(msgs)
           => /\ msgs' = Tail(msgs)
              /\ navState' = setMode(navState, Head(msgs), routeNames)

\* C13: the action for a new value of isSplitted is dispatched by the effects
\* of the committed pass that first computed it: no step dispatches during a
\* render pass or before it, a committed pass that computed a new value has
\* the dispatch scheduled and its effects dispatch exactly that action, which
\* eventually happens; the store processes the actions in the order of their
\* dispatch.
C13_DispatchedAfterItsPass ==
    /\ [](owesSetSplitted => "split" \in todo /\ cur.isSplitted = pass.isSplitted)
    /\ [][dispatchOrder]_vars
    /\ (owesSetSplitted ~> (pc = "idle" /\ sentLog # <<>>
                               /\ Last(sentLog).isSplitted = pass.isSplitted))

\* the effects of a pass that computed a changed isSplitted have just
\* dispatched its action, which the store has not processed yet
C13_Witness ==
    /\ pc = "idle"
    /\ pass.flipped
    /\ msgs = <<setSplitted(pass.isSplitted, initialRouteName)>>
    /\ navState.type # (IF pass.isSplitted THEN "split" ELSE "stack")

----------------------------------------------------------------------------
(* C14 *)

\* the last pass returned a layout (it neither threw nor is still to come)
passRendered == pass.tree.kind \in {"split", "stack"}

\* C14 as stated: the one pass after a flip whose layout disagrees with the
\* type it read presents the layout of the old mode.
C14_IntermediateShowsOldLayout ==
    (passRendered /\ pass.flipped)
        => pass.tree.kind = (IF pass.isSplitted THEN "stack" ELSE "split")

\* C14, amended: the layout of a pass is always the one of the isSplitted it
\* computed; the pass that first computes a flipped isSplitted reads a state
\* whose type is still the old mode, so it presents the layout of the NEW mode
\* over the state of the old one, and it is the only pass after the mount whose
\* layout disagrees with the type it read: every later pass that computes the
\* same isSplitted reads a state of the new type.
C14_IntermediateShowsNewLayout ==
    passRendered =>
        /\ pass.tree.kind = (IF pass.isSplitted THEN "split" ELSE "stack")
        /\ pass.flipped => pass.state.type # pass.tree.kind
        /\ (~pass.flipped /\ ~pass.first) => pass.state.type = pass.tree.kind

\* the pass after the intermediate one: it computed the same isSplitted, and
\* its layout and the type it read are both the new mode (the store entered
\* split mode between the two passes and focused initialRouteName)
C14_Witness ==
    /\ passRendered
    /\ ~pass.flipped /\ ~pass.first
    /\ pass.tree.kind = "split"
    /\ pass.state.type = "split"
    /\ cur.state = pass.state
    /\ Len(sentLog) = 2
    /\ Last(sentLog).isSplitted
    /\ ~sentLog[1].isSplitted
    /\ pc = "effects"
    /\ "state" \in todo

----------------------------------------------------------------------------
(* C15 *)

\* C15: a pass whose isSplitted is false renders one stack backend and no
\* split layout; the state handed to the backend has the routes and the index
\* of the state the pass read and type "stack", whatever type that state has;
\* the backend is NativeStackView exactly when Platform.OS is not "web" and
\* screens are enabled, and StackView otherwise.
C15_StackDelegation ==
    /\ (pass.tree # NoTree /\ ~pass.isSplitted) =>
          /\ pass.tree.kind = "stack"
          /\ pass.tree.main = <<>>
          /\ pass.tree.detail = <<>>
          /\ Len(pass.tree.stack) = 1
          /\ pass.tree.stack[1].routes = pass.state.routes
          /\ pass.tree.stack[1].index = pass.state.index
          /\ pass.tree.stack[1].type = "stack"
    /\ pass.tree.kind = "stack" => ~pass.isSplitted
    /\ \A os \in Platforms, se \in BOOLEAN :
          /\ stackBackend(os, se) \in {"NativeStackView", "StackView"}
          /\ (stackBackend(os, se) = "NativeStackView") <=> (os # "web" /\ se)

\* a stack pass over a state of the split store: three routes, type "split"
C15_Witness ==
    /\ ~pass.isSplitted
    /\ pass.tree.kind = "stack"
    /\ pass.state.type = "split"
    /\ Len(pass.state.routes) = 3
    /\ pass.state.index = 2
    /\ pass.tree.stack[1].type = "stack"

----------------------------------------------------------------------------
(* C16 *)

\* the four fields of two dimension values are pairwise equal
sameFields(a, b) ==
    /\ a.width = b.width
    /\ a.height = b.height
    /\ a.scale = b.scale
    /\ a.fontScale = b.fontScale

\* a step in which the window dimensions are set and the listeners notified
notification == window' # window \/ (pc' = pc /\ pendingDims' # pendingDims)

\* what a notification does to the held dimensions: it queues the notified
\* value when a field of it differs from the value the registered listener
\* knows, and changes nothing, and schedules no pass, when the four are equal
notificationEffect ==
    notification =>
        /\ dimensions' = dimensions
        /\ pendingDims' # pendingDims
              => /\ \E i \in 1..Len(listeners) : ~sameFields(listeners[i], window')
                 /\ pendingDims' = <<window'>>
        /\ (\A i \in 1..Len(listeners) : sameFields(listeners[i], window'))
              => /\ pendingDims' = pendingDims
                 /\ renderScheduled' = renderScheduled
        /\ (\E i \in 1..Len(listeners) : ~sameFields(listeners[i], window'))
              => pendingDims' = <<window'>>

\* C16: a change notification updates the held dimensions, and so schedules a
\* pass, only if one of width, height, scale, fontScale differs from the value
\* the listener last knew (the dimensions of the pass whose effect registered
\* it, which are the held dimensions whenever no effect is pending); with four
\* equal fields the held dimensions stay as they are and no pass is scheduled.
C16_UpdateOnlyOnDifference ==
    /\ [][notificationEffect]_vars
    /\ []((pc = "idle" /\ committed) => listeners = <<dimensions>>)

\* a notification of the same width with other fields changed has queued the
\* notified value for the listener that knew the old one
C16_Witness ==
    /\ pc = "idle"
    /\ committed
    /\ listeners = <<Wide>>
    /\ dimensions = Wide
    /\ window = WideAlt
    /\ pendingDims = <<WideAlt>>
    /\ renderScheduled

----------------------------------------------------------------------------
(* C17 *)

\* the subscription effect runs while the window dimensions are no longer the
\* ones its pass rendered with: its re-check queues the current ones
recheckCatches ==
    (/\ pc = "effects" /\ pc' = "idle"
     /\ "dims" \in todo
     /\ ~sameFields(cur.dimensions, window))
        => /\ pendingDims' = <<window>>
           /\ listeners' = <<cur.dimensions>>

\* C17: no change of the window dimensions is lost. The effect that
\* subscribes re-reads them, so a change made between the read of a pass and
\* the registration of its listener is queued, and a mounted component with
\* nothing pending (every scheduled pass and effect has run) holds the current
\* window dimensions and listens with them.
C17_NoChangeLost ==
    /\ [][recheckCatches]_vars
    /\ [](Quiescent => /\ sameFields(dimensions, window)
                       /\ pendingDims = <<>>
                       /\ listeners = <<window>>)

\* the window changed after the mount pass read it and before any listener
\* was registered
C17_Witness ==
    /\ pc = "effects"
    /\ pass.first
    /\ "dims" \in todo
    /\ listeners = <<>>
    /\ ~sameFields(dimensions, window)
    /\ getIsSplitted(window, mainWidth) # getIsSplitted(dimensions, mainWidth)

----------------------------------------------------------------------------
(* C18 *)

\* the component is gone: it was unmounted, or a pass threw
tornDown == pc \in {"unmounted", "crashed"}

\* C18: at most one change listener of the component is registered at any
\* time, the one of the last subscription effect (a re-subscription removes
\* the previous listener before it adds the new one); once the component is
\* torn down none remains, and no step handles a notification any more.
C18_OneListenerNoneAfterTeardown ==
    /\ [](/\ Len(listeners) <= 1
          /\ listeners = subscribed
          /\ tornDown => listeners = <<>>)
    /\ [][tornDown => /\ pendingDims' = pendingDims
                      /\ dimensions' = dimensions
                      /\ listeners' = <<>>]_vars

\* unmounted after the listener had been replaced at least twice (the mount
\* and two changes of isSplitted), with no listener left
C18_Witness ==
    /\ pc = "unmounted"
    /\ listeners = <<>>
    /\ subscribed = <<>>
    /\ Len(sentLog) = 2
    /\ sentLog[1].isSplitted # sentLog[2].isSplitted

----------------------------------------------------------------------------
(* C19 *)

\* C19: every scene of the detail region of a split pass belongs to a route
\* that is focused in that pass or was focused in an earlier pass of the
\* mount, by key.
C19_ScenesOnlyOfVisitedRoutes ==
    pass.tree.kind = "split" => sceneKeys(pass.tree) \subseteq pass.seen

----------------------------------------------------------------------------
(* C20 *)

\* a step of the component or of the store, as opposed to one of the
\* environment (window change, navigation, unmount)
internalStep ==
    \/ pc = "idle" /\ pc' \in {"effects", "crashed"}
    \/ pc = "effects" /\ pc' = "idle"
    \/ Len(msgs') < Len(msgs)

\* variant: an upper bound of the number of internal steps still to come if
\* the environment takes no further step. Each cause counts the steps that
\* follow from it: a queued setLoaded (a pass and its effects), a state the
\* last pass has not rendered (a pass, its effects, a setLoaded), a dispatched
\* action (the store's step, then a state to render), a queued setDimensions
\* (a pass, its effects, an action; twice when the queued value is already
\* stale, for the re-check queues the current one)
pendingWork ==
    LET loadedWork == 2
        stateWork == 2 + loadedWork
        actionWork == 1 + stateWork
        dimsWork == 2 + actionWork
    IN IF tornDown THEN Len(msgs)
       ELSE IF ~committed THEN 2 + actionWork + loadedWork
       ELSE (IF pendingDims # <<>>
             THEN dimsWork
                  + (IF sameFields(pendingDims[1], window) THEN 0 ELSE dimsWork)
             ELSE 0)
          + (IF pendingLoaded # <<>> THEN loadedWork ELSE 0)
          + (IF navState # cur.state THEN stateWork ELSE 0)
          + (IF msgs # <<>> THEN actionWork ELSE 0)
          + (IF pc = "effects"
             THEN 1 + (IF "split" \in todo THEN actionWork ELSE 0)
                    + (IF "state" \in todo
                          /\ cur.state.index \notin Range(cur.loaded)
                       THEN loadedWork ELSE 0)
                    + (IF "dims" \in todo /\ ~sameFields(cur.dimensions, window)
                       THEN dimsWork ELSE 0)
             ELSE 0)

\* C20: the re-render loop quiesces. Every step of the component or of the
\* store strictly decreases a natural number that only the environment can
\* raise, so after the last window change and navigation at most that many
\* passes, effects and store steps follow; a mounted component with work left
\* always has its next step enabled, and with none left it has no pass, no
\* action and no setLoaded or setDimensions update pending.
C20_Quiesces ==
    /\ [][internalStep => pendingWork' < pendingWork]_vars
    /\ [](/\ pendingWork \in 0..40
          /\ (Mounted /\ pendingWork > 0)
                => (ENABLED Render \/ ENABLED RunEffects \/ ENABLED StoreDeliver)
          /\ (Mounted /\ pendingWork = 0)
                => /\ Quiescent
                   /\ pendingDims = <<>> /\ pendingLoaded = <<>>
                   /\ todo = {} /\ sameFields(dimensions, window))

\* the longest chain is under way: a queued dimension value that is already
\* stale, over a state the last pass has not rendered
C20_Witness ==
    /\ pc = "idle"
    /\ committed
    /\ pendingDims # <<>>
    /\ ~sameFields(pendingDims[1], window)
    /\ navState # cur.state
    /\ pendingWork >= 20

============================================================================
